---- MODULE Spec2Model ----
(***************************************************************************)
(* BizBuz card service (src/server.js): profile resolution, the vCard 3.0  *)
(* renderer, the HTML card renderer and the four identifier endpoints.     *)
(*                                                                         *)
(* Text is modelled as a sequence of characters (one-character strings),   *)
(* so that split, join, replace and escaping are computed, not assumed.    *)
(***************************************************************************)
EXTENDS Integers, Sequences, FiniteSets, TLC

(***************************************************************************)
(* Bounds of the model.                                                    *)
(***************************************************************************)
\* longest enumerated profile name, in characters
MaxNameLen == 3

(***************************************************************************)
(* Text helpers: the JavaScript string operations the code uses.           *)
(***************************************************************************)
CR == "CR"
LF == "LF"

\* the '\r\n' separator of lines.join('\r\n')
CRLF == <<CR, LF>>

RECURSIVE Concat(_)
\* template-literal concatenation of a sequence of texts
Concat(ss) == IF ss = <<>> THEN <<>> ELSE Head(ss) \o Concat(Tail(ss))

\* index of the first occurrence of character c in s, 0 when there is none
FirstIndex(s, c) ==
    IF \E i \in 1..Len(s) : s[i] = c
    THEN CHOOSE i \in 1..Len(s) : s[i] = c /\ \A j \in 1..(i - 1) : s[j] # c
    ELSE 0

RECURSIVE Split(_, _)
\* String.prototype.split with a one-character separator: empty tokens are kept
Split(s, c) ==
    LET k == FirstIndex(s, c)
    IN  IF k = 0 THEN <<s>>
        ELSE <<SubSeq(s, 1, k - 1)>> \o Split(SubSeq(s, k + 1, Len(s)), c)

RECURSIVE Join(_, _)
\* Array.prototype.join: the separator goes between elements only
Join(parts, sep) ==
    IF parts = <<>> THEN <<>>
    ELSE IF Len(parts) = 1 THEN parts[1]
    ELSE parts[1] \o sep \o Join(Tail(parts), sep)

\* Array.prototype.slice(1)
Slice1(parts) == SubSeq(parts, 2, Len(parts))

RECURSIVE ReplaceAll(_, _, _)
\* String.prototype.replace with a global one-character pattern
ReplaceAll(s, c, r) ==
    IF s = <<>> THEN <<>>
    ELSE (IF Head(s) = c THEN r ELSE <<Head(s)>>) \o ReplaceAll(Tail(s), c, r)

\* whether p is a prefix of s
StartsWith(s, p) == Len(p) <= Len(s) /\ SubSeq(s, 1, Len(p)) = p

LowerCase == {"a", "b", "c", "d", "e", "f", "g", "h", "i", "j", "k", "l", "m",
              "n", "o", "p", "q", "r", "s", "t", "u", "v", "w", "x", "y", "z"}
UpperCase == {"A", "B", "C", "D", "E", "F", "G", "H", "I", "J", "K", "L", "M",
              "N", "O", "P", "Q", "R", "S", "T", "U", "V", "W", "X", "Y", "Z"}
Digits == {"0", "1", "2", "3", "4", "5", "6", "7", "8", "9"}

UpperOf ==
    ("a" :> "A") @@ ("b" :> "B") @@ ("c" :> "C") @@ ("d" :> "D") @@ ("e" :> "E") @@
    ("f" :> "F") @@ ("g" :> "G") @@ ("h" :> "H") @@ ("i" :> "I") @@ ("j" :> "J") @@
    ("k" :> "K") @@ ("l" :> "L") @@ ("m" :> "M") @@ ("n" :> "N") @@ ("o" :> "O") @@
    ("p" :> "P") @@ ("q" :> "Q") @@ ("r" :> "R") @@ ("s" :> "S") @@ ("t" :> "T") @@
    ("u" :> "U") @@ ("v" :> "V") @@ ("w" :> "W") @@ ("x" :> "X") @@ ("y" :> "Y") @@
    ("z" :> "Z")

\* String.prototype.toUpperCase
ToUpperCase(s) == [i \in 1..Len(s) |-> IF s[i] \in LowerCase THEN UpperOf[s[i]] ELSE s[i]]

(***************************************************************************)
(* JSON field values of a profile: undefined, a string, or a number (a     *)
(* value that is not text).  v is the value's String() conversion.         *)
(***************************************************************************)
Undef == [t |-> "undef", v |-> <<>>]
Str(s) == [t |-> "str", v |-> s]
Num(s) == [t |-> "num", v |-> s]

\* JavaScript truthiness: '' and 0 and undefined are falsy
Truthy(f) == \/ f.t = "str" /\ f.v # <<>>
             \/ f.t = "num" /\ f.v # <<"0">>

\* String(value), as a template literal interpolates it
ToStr(f) == f.v

\* value || literal, interpolated
OrElse(f, lit) == IF Truthy(f) THEN ToStr(f) ELSE lit

\* a method of String.prototype (split, replace) exists on strings only
HasStringMethods(f) == f.t = "str"

FieldNames == {"name", "title", "company", "email", "phone", "website", "location", "bio"}
SocialNames == {"github", "twitter", "linkedin"}

NoSocial == [t |-> "undef", github |-> Undef, twitter |-> Undef, linkedin |-> Undef]

EmptyProfile ==
    [name |-> Undef, title |-> Undef, company |-> Undef, email |-> Undef,
     phone |-> Undef, website |-> Undef, location |-> Undef, bio |-> Undef,
     social |-> NoSocial]

(***************************************************************************)
(* getDemoProfile: the built-in demo profile.                              *)
(***************************************************************************)
getDemoProfile ==
    [name     |-> Str(<<"A", "d", "a", " ", "L", "o", "v", "e", "l", "a", "c", "e">>),
     title    |-> Str(<<"S", "o", "f", "t", "w", "a", "r", "e", " ", "E", "n", "c", "h", "a", "n", "t", "r", "e", "s", "s">>),
     company  |-> Str(<<"P", "l", "a", "n", "e", "t", " ", "N", "i", "n", "e">>),
     email    |-> Str(<<"a", "d", "a", "@", "p", "l", "a", "n", "e", "t", "n", "i", "n", "e", ".", "a", "p", "p">>),
     phone    |-> Str(<<"+", "1", " ", "(", "5", "5", "5", ")", " ", "1", "2", "3", "-", "4", "5", "6", "7">>),
     website  |-> Str(<<"h", "t", "t", "p", "s", ":", "/", "/", "p", "l", "a", "n", "e", "t", "n", "i", "n", "e", ".", "a", "p", "p">>),
     location |-> Str(<<"T", "h", "e", " ", "C", "o", "s", "m", "o", "s">>),
     bio      |-> Str(<<"B", "u", "i", "l", "d", "i", "n", "g", " ", "t", "h", "e", " ", "f", "u", "t", "u", "r", "e", " ", "o", "f", " ", "p", "r", "i", "v", "a", "c", "y", "-", "f", "i", "r", "s", "t", " ", "t", "e", "c", "h", "n", "o", "l", "o", "g", "y", ".">>),
     social   |-> [t |-> "obj",
                   github   |-> Str(<<"p", "l", "a", "n", "e", "t", "-", "n", "i", "n", "e", "-", "a", "p", "p">>),
                   twitter  |-> Str(<<"p", "l", "a", "n", "e", "t", "n", "i", "n", "e">>),
                   linkedin |-> Undef]]

(***************************************************************************)
(* generateVCard: the vCard 3.0 renderer.                                  *)
(***************************************************************************)
L_BEGIN == <<"B", "E", "G", "I", "N", ":", "V", "C", "A", "R", "D">>
L_VERSION == <<"V", "E", "R", "S", "I", "O", "N", ":", "3", ".", "0">>
L_FN == <<"F", "N", ":">>
L_N == <<"N", ":">>
L_TITLE == <<"T", "I", "T", "L", "E", ":">>
L_ORG == <<"O", "R", "G", ":">>
L_EMAIL == <<"E", "M", "A", "I", "L", ";", "T", "Y", "P", "E", "=", "I", "N", "T", "E", "R", "N", "E", "T", ":">>
L_TEL == <<"T", "E", "L", ";", "T", "Y", "P", "E", "=", "C", "E", "L", "L", ":">>
L_URL == <<"U", "R", "L", ":">>
L_ADR == <<"A", "D", "R", ";", "T", "Y", "P", "E", "=", "W", "O", "R", "K", ":", ";", ";">>
L_ADR_TAIL == <<";", ";", ";", ";">>
L_NOTE == <<"N", "O", "T", "E", ":">>
L_GITHUB == <<"U", "R", "L", ";", "T", "Y", "P", "E", "=", "G", "i", "t", "H", "u", "b", ":", "h", "t", "t", "p", "s", ":", "/", "/", "g", "i", "t", "h", "u", "b", ".", "c", "o", "m", "/">>
L_TWITTER == <<"U", "R", "L", ";", "T", "Y", "P", "E", "=", "T", "w", "i", "t", "t", "e", "r", ":", "h", "t", "t", "p", "s", ":", "/", "/", "t", "w", "i", "t", "t", "e", "r", ".", "c", "o", "m", "/">>
L_LINKEDIN == <<"U", "R", "L", ";", "T", "Y", "P", "E", "=", "L", "i", "n", "k", "e", "d", "I", "n", ":", "h", "t", "t", "p", "s", ":", "/", "/", "l", "i", "n", "k", "e", "d", "i", "n", ".", "c", "o", "m", "/", "i", "n", "/">>
L_END == <<"E", "N", "D", ":", "V", "C", "A", "R", "D">>

\* a slip in the N line: only the second token is kept as the family name
NLineSecondTokenOnly(name) ==
    LET parts == Split(name, " ")
    IN  IF Len(parts) >= 2
        THEN L_N \o parts[2] \o <<";">> \o parts[1] \o <<";", ";", ";">>
        ELSE L_N \o <<";">> \o name \o <<";", ";", ";">>

\* the N line pushed for a name (a string)
NLine(name) ==
    LET parts == Split(name, " ")
    IN  IF Len(parts) >= 2
        THEN L_N \o Join(Slice1(parts), <<" ">>) \o <<";">> \o parts[1] \o <<";", ";", ";">>
        ELSE L_N \o <<";">> \o name \o <<";", ";", ";">>

\* a slip in the emission test: a line for every defined field, empty or not
FieldLineIfDefined(f, prefix, suffix) ==
    IF f.t # "undef" THEN <<prefix \o ToStr(f) \o suffix>> ELSE <<>>

\* if (profile.x) lines.push(`<prefix>${profile.x}<suffix>`)
FieldLine(f, prefix, suffix) ==
    IF Truthy(f) THEN <<prefix \o ToStr(f) \o suffix>> ELSE <<>>

\* profile.name.split throws a TypeError when name is truthy and not a string
VCardThrows(profile) == Truthy(profile.name) /\ ~HasStringMethods(profile.name)

\* the lines array of generateVCard, as it stands before the join
VCardLines(profile) ==
    <<L_BEGIN, L_VERSION>>
    \o (IF Truthy(profile.name)
        THEN FieldLine(profile.name, L_FN, <<>>) \o <<NLine(ToStr(profile.name))>>
        ELSE <<>>)
    \o FieldLine(profile.title, L_TITLE, <<>>)
    \o FieldLine(profile.company, L_ORG, <<>>)
    \o FieldLine(profile.email, L_EMAIL, <<>>)
    \o FieldLine(profile.phone, L_TEL, <<>>)
    \o FieldLine(profile.website, L_URL, <<>>)
    \o FieldLine(profile.location, L_ADR, L_ADR_TAIL)
    \o FieldLine(profile.bio, L_NOTE, <<>>)
    \o (IF profile.social.t = "obj"
        THEN FieldLine(profile.social.github, L_GITHUB, <<>>)
             \o FieldLine(profile.social.twitter, L_TWITTER, <<>>)
             \o FieldLine(profile.social.linkedin, L_LINKEDIN, <<>>)
        ELSE <<>>)
    \o <<L_END>>

\* generateVCard(profile), for a profile on which it does not throw
generateVCard(profile) == Join(VCardLines(profile), CRLF)

(***************************************************************************)
(* GET /vcard/:identifier: the download filename.                          *)
(***************************************************************************)
\* the characters the pattern [^a-zA-Z0-9.-] leaves alone
FilenameSafe == LowerCase \cup UpperCase \cup Digits \cup {".", "-"}

RECURSIVE ReplaceFirstUnsafe(_)
\* the pattern without its g flag: only the first match is replaced
ReplaceFirstUnsafe(s) ==
    IF s = <<>> THEN <<>>
    ELSE IF Head(s) \in FilenameSafe THEN <<Head(s)>> \o ReplaceFirstUnsafe(Tail(s))
    ELSE <<"_">> \o Tail(s)

\* .replace(/[^a-zA-Z0-9.-]/g, '_')
ReplaceUnsafe(s) == [i \in 1..Len(s) |-> IF s[i] \in FilenameSafe THEN s[i] ELSE "_"]

\* `${profile.name || 'contact'}.vcf`, before the replace
RawFilename(profile) ==
    OrElse(profile.name, <<"c", "o", "n", "t", "a", "c", "t">>) \o <<".", "v", "c", "f">>

\* the filename of the Content-Disposition header
Filename(profile) == ReplaceUnsafe(RawFilename(profile))

(***************************************************************************)
(* escapeHtml, getInitials: helpers of the HTML renderer.                  *)
(***************************************************************************)
\* escapeHtml(str): '' for a falsy value, else five global replaces, & first
escapeHtml(s) ==
    IF s = <<>> THEN <<>>
    ELSE LET s1 == ReplaceAll(s, "&", <<"&", "a", "m", "p", ";">>)
             s2 == ReplaceAll(s1, "<", <<"&", "l", "t", ";">>)
             s3 == ReplaceAll(s2, ">", <<"&", "g", "t", ";">>)
             s4 == ReplaceAll(s3, "\"", <<"&", "q", "u", "o", "t", ";">>)
         IN  ReplaceAll(s4, "'", <<"&", "#", "0", "3", "9", ";">>)

\* word => word[0], joined: an empty word contributes nothing
FirstChars(words) ==
    Concat([i \in 1..Len(words) |-> IF words[i] = <<>> THEN <<>> ELSE <<words[i][1]>>])

\* String.prototype.substring(0, 2)
Substring02(s) == SubSeq(s, 1, IF Len(s) < 2 THEN Len(s) ELSE 2)

\* getInitials(name), for a name on which split exists
getInitials(f) ==
    IF ~Truthy(f) THEN <<"?">>
    ELSE ToUpperCase(Substring02(FirstChars(Split(ToStr(f), " "))))

\* profile.website.replace(/^https?:\/\//, '')
StripScheme(s) ==
    IF StartsWith(s, <<"h", "t", "t", "p", ":", "/", "/">>) THEN SubSeq(s, 8, Len(s))
    ELSE IF StartsWith(s, <<"h", "t", "t", "p", "s", ":", "/", "/">>) THEN SubSeq(s, 9, Len(s))
    ELSE s

(***************************************************************************)
(* generateBusinessCardPage, generateErrorPage.  A page is the sequence of *)
(* its segments: static markup of the template, or an interpolated text    *)
(* with the place it is inserted at (slot) and where it comes from (src).  *)
(***************************************************************************)
Static(markup) == [slot |-> "markup", src |-> "static", text |-> <<markup>>]
Interp(slot, src, text) == [slot |-> slot, src |-> src, text |-> text]

\* a conditional block of the template: its segments, or '' when the field is falsy
Block(f, segs) == IF Truthy(f) THEN segs ELSE <<>>

\* const cardUrl = `https://bizbuz.planetnine.app/card/${identifier}`
PageCardUrl(identifier) ==
    <<"h", "t", "t", "p", "s", ":", "/", "/", "b", "i", "z", "b", "u", "z", ".",
      "p", "l", "a", "n", "e", "t", "n", "i", "n", "e", ".", "a", "p", "p",
      "/", "c", "a", "r", "d", "/">> \o identifier

\* the options of QRCode.toDataURL in generateBusinessCardPage
PageQrOptions == [type |-> "dataurl", width |-> 150, margin |-> 1,
                  dark |-> "#10b981", light |-> "#1a0033"]

\* the template throws a TypeError where it calls a string method on a value
\* that is not a string: name.split in getInitials, profile.website.replace
PageThrows(profile) ==
    \/ Truthy(profile.name) /\ ~HasStringMethods(profile.name)
    \/ Truthy(profile.website) /\ ~HasStringMethods(profile.website)

\* the message of that TypeError: the template is evaluated top to bottom
PageThrowMessage(profile) ==
    IF Truthy(profile.name) /\ ~HasStringMethods(profile.name)
    THEN <<"n", "a", "m", "e", ".", "s", "p", "l", "i", "t", " ", "i", "s", " ",
           "n", "o", "t", " ", "a", " ", "f", "u", "n", "c", "t", "i", "o", "n">>
    ELSE <<"p", "r", "o", "f", "i", "l", "e", ".", "w", "e", "b", "s", "i", "t", "e", ".",
           "r", "e", "p", "l", "a", "c", "e", " ", "i", "s", " ", "n", "o", "t", " ",
           "a", " ", "f", "u", "n", "c", "t", "i", "o", "n">>

\* the template literal generateBusinessCardPage returns, once the QR is there
PageSegments(profile, identifier) ==
    <<Static("<!DOCTYPE html><html lang=en><head><title>"),
      Interp("title", "profile", OrElse(profile.name, <<"B", "i", "z", "B", "u", "z">>)),
      Static(" - Digital Business Card</title><meta name=description content=\""),
      Interp("description.title", "profile", OrElse(profile.title, <<>>)),
      Static(" at "),
      Interp("description.company", "profile",
             OrElse(profile.company, <<"P", "l", "a", "n", "e", "t", " ", "N", "i", "n", "e">>)),
      Static("\"><style>...</style></head><body><div class=card><div class=avatar>"),
      Interp("avatar", "profile", getInitials(profile.name)),
      Static("</div><h1 class=name>"),
      Interp("name", "profile",
             escapeHtml(OrElse(profile.name, <<"A", "n", "o", "n", "y", "m", "o", "u", "s">>))),
      Static("</h1>")>>
    \o Block(profile.title,
             <<Static("<p class=title>"),
               Interp("title.p", "profile", escapeHtml(ToStr(profile.title))),
               Static("</p>")>>)
    \o Block(profile.company,
             <<Static("<p class=company>"),
               Interp("company", "profile", escapeHtml(ToStr(profile.company))),
               Static("</p>")>>)
    \o Block(profile.bio,
             <<Static("<p class=bio>\""),
               Interp("bio", "profile", escapeHtml(ToStr(profile.bio))),
               Static("\"</p>")>>)
    \o <<Static("<div class=contact-info>")>>
    \o Block(profile.email,
             <<Static("<a href=\"mailto:"),
               Interp("email.href", "profile", escapeHtml(ToStr(profile.email))),
               Static("\" class=contact-item><span class=contact-icon>@</span><span>"),
               Interp("email", "profile", escapeHtml(ToStr(profile.email))),
               Static("</span></a>")>>)
    \o Block(profile.phone,
             <<Static("<a href=\"tel:"),
               Interp("phone.href", "profile", escapeHtml(ToStr(profile.phone))),
               Static("\" class=contact-item><span class=contact-icon>#</span><span>"),
               Interp("phone", "profile", escapeHtml(ToStr(profile.phone))),
               Static("</span></a>")>>)
    \o Block(profile.website,
             <<Static("<a href=\""),
               Interp("website.href", "profile", escapeHtml(ToStr(profile.website))),
               Static("\" target=_blank class=contact-item><span class=contact-icon>~</span><span>"),
               Interp("website", "profile", escapeHtml(StripScheme(ToStr(profile.website)))),
               Static("</span></a>")>>)
    \o Block(profile.location,
             <<Static("<div class=contact-item><span class=contact-icon>*</span><span>"),
               Interp("location", "profile", escapeHtml(ToStr(profile.location))),
               Static("</span></div>")>>)
    \o <<Static("</div><div class=qr-section><img src=\""),
         Interp("qr", "qrDataUrl", <<"d", "a", "t", "a", ":", "i", "m", "a", "g", "e", "/", "p", "n", "g", ";", "b", "a", "s", "e", "6", "4", ",">>),
         Static("\" alt=\"QR Code\"></div><div class=actions><a href=\"/vcard/"),
         Interp("vcard.href", "identifier", identifier),
         Static("\" class=btn download>Save Contact</a></div></div><script>const title = '"),
         Interp("share.title", "profile",
                escapeHtml(OrElse(profile.name, <<"C", "o", "n", "t", "a", "c", "t">>))),
         Static(" - Business Card';...</script></body></html>")>>

\* generateErrorPage(message)
generateErrorPage(message) ==
    <<Static("<!DOCTYPE html><html lang=en><head><title>Error - BizBuz</title></head><body><div class=error><h1>Oops!</h1><p>"),
      Interp("message", "message", escapeHtml(message)),
      Static("</p><p><a href=\"/\">Back to BizBuz</a></p></div></body></html>")>>

(***************************************************************************)
(* The profile service as fetchProfile sees it.  An outcome of the one     *)
(* outbound call is a network error (fetch rejects) or a response with a   *)
(* status and a body.  A body is text that does not parse as JSON, or a    *)
(* JSON value: null, false, 0, '', or an object.  An object carries its    *)
(* own fields (p) and possibly a profile member (wrap): absent, null, or   *)
(* an object (inner).                                                      *)
(***************************************************************************)
Body(t, p, wrap, inner) == [t |-> t, p |-> p, wrap |-> wrap, inner |-> inner]
Scalar(t) == Body(t, EmptyProfile, "none", EmptyProfile)
Direct(p) == Body("obj", p, "none", EmptyProfile)
Wrapped(p) == Body("obj", EmptyProfile, "obj", p)
NullWrapped(p) == Body("obj", p, "null", EmptyProfile)

NetworkError == [kind |-> "network_error", status |-> 0, body |-> Scalar("unparseable")]
Response(status, body) == [kind |-> "response", status |-> status, body |-> body]

\* response.ok: the status is in the range 200-299
ResponseOk(o) == o.kind = "response" /\ o.status >= 200 /\ o.status <= 299

\* the value fetchProfile returns when it has no profile
Null == Scalar("null")

\* !profile in the handlers
Falsy(r) == r.t \in {"null", "false", "zero", "emptystr"}

demo == <<"d", "e", "m", "o">>

\* a slip in the fallback: the demo profile for every identifier
FallbackAlwaysDemo(identifier) == Direct(getDemoProfile)

\* if (identifier === 'demo') return getDemoProfile(); return null;
Fallback(identifier) == IF identifier = demo THEN Direct(getDemoProfile) ELSE Null

\* the exception the try block of fetchProfile throws, if any: fetch rejects,
\* response.json() rejects, or data.profile is read of null
FetchThrows(o) ==
    \/ o.kind = "network_error"
    \/ ResponseOk(o) /\ o.body.t \in {"unparseable", "null"}

FetchThrowMessage(o) ==
    IF o.kind = "network_error"
    THEN <<"f", "e", "t", "c", "h", " ", "f", "a", "i", "l", "e", "d">>
    ELSE IF o.body.t = "unparseable"
    THEN <<"U", "n", "e", "x", "p", "e", "c", "t", "e", "d", " ", "t", "o", "k", "e", "n">>
    ELSE <<"C", "a", "n", "n", "o", "t", " ", "r", "e", "a", "d", " ", "p", "r", "o", "p",
           "e", "r", "t", "i", "e", "s", " ", "o", "f", " ", "n", "u", "l", "l">>

\* console.error('Prof fetch error:', error.message) in the catch of fetchProfile
FetchCaught(o) ==
    IF FetchThrows(o) THEN <<[by |-> "fetchProfile", message |-> FetchThrowMessage(o)]>>
    ELSE <<>>

\* fetchProfile(identifier), given the outcome o of its outbound call
fetchProfile(identifier, o) ==
    IF o.kind = "network_error" THEN Fallback(identifier)          \* catch
    ELSE IF ~ResponseOk(o) THEN Fallback(identifier)
    ELSE IF o.body.t = "unparseable" THEN Fallback(identifier)    \* json() rejects: catch
    ELSE IF o.body.t = "null" THEN Fallback(identifier)           \* null.profile throws: catch
    ELSE IF o.body.t # "obj" THEN o.body                          \* undefined || data
    ELSE IF o.body.wrap = "obj" THEN Direct(o.body.inner)         \* data.profile
    ELSE o.body                                                   \* data.profile || data

(***************************************************************************)
(* Inputs: the requests that arrive and the answers the profile service    *)
(* and the QR rasterizer may give.                                         *)
(***************************************************************************)
Identifiers == {demo, <<"u", "1">>}
Protocols == {<<"h", "t", "t", "p">>, <<"h", "t", "t", "p", "s">>}
Hosts == {<<"l", "o", "c", "a", "l", "h", "o", "s", "t", ":", "3", "0", "1", "3">>,
          <<"b", "i", "z", "b", "u", "z", ".", "p", "l", "a", "n", "e", "t", "n", "i", "n", "e", ".", "a", "p", "p">>}

Cher == <<"C", "h", "e", "r">>

\* profiles the profile service may hold: text fields, and fields that are not text
ServedProfiles ==
    {EmptyProfile,
     getDemoProfile,
     [EmptyProfile EXCEPT !.name = Str(Cher)],
     [EmptyProfile EXCEPT !.name = Str(<<"<", "b", ">">>), !.bio = Str(<<"\"", "&", "'">>)],
     [EmptyProfile EXCEPT !.name = Num(<<"7">>)],
     [EmptyProfile EXCEPT !.name = Num(<<"0">>), !.website = Num(<<"7">>)]}

\* what the profile service answers to GET /profile/<identifier>
ProfStates ==
    {NetworkError,
     Response(404, Scalar("unparseable")),
     Response(404, Direct([EmptyProfile EXCEPT !.name = Str(Cher)])),
     Response(500, Scalar("unparseable")),
     Response(300, Direct([EmptyProfile EXCEPT !.name = Str(Cher)])),
     Response(299, Direct([EmptyProfile EXCEPT !.name = Str(Cher)])),
     Response(204, Scalar("unparseable")),
     Response(200, Scalar("unparseable")),
     Response(200, Scalar("null")),
     Response(200, Scalar("false")),
     Response(200, Scalar("zero")),
     Response(200, Scalar("emptystr"))}
    \cup {Response(200, Direct(p)) : p \in ServedProfiles}
    \cup {Response(200, Wrapped(p)) : p \in ServedProfiles}
    \cup {Response(200, NullWrapped(p)) : p \in ServedProfiles}

\* QRCode.toDataURL / QRCode.toBuffer resolve with an image or reject with an error
QrOutcomes ==
    {[throws |-> FALSE, message |-> <<>>],
     [throws |-> TRUE, message |-> <<"t", "o", "o", " ", "b", "i", "g">>],
     [throws |-> TRUE, message |-> <<"<", "e", ">">>]}

\* the image the rasterizer makes of a text under given options
QrImage(args) == [encodes |-> args.text, options |-> args.options]

(***************************************************************************)
(* State of one request.                                                   *)
(***************************************************************************)
VARIABLES
    prof,        \* what the profile service answers for this request
    pc,          \* where the handler is: idle, fetching, resolved, rasterizing, done
    req,         \* the request: endpoint, identifier, protocol, host
    profile,     \* what fetchProfile returned
    fetchCalls,  \* outbound calls to the profile service issued so far
    qrCalls,     \* calls into the QR rasterizer issued so far
    qrArgs,      \* the arguments of the QR call
    res,         \* the response sent
    responses,   \* responses sent so far
    log,         \* the steps taken, in order
    errlog,      \* console.error: the exceptions caught, with the catch that caught them
    prev,        \* two requests in a row: what the earlier one was and was answered
    rprofile,    \* the renderers on their own: the profile handed to them
    rout         \* the renderers on their own: what they produced

vars == <<prof, pc, req, profile, fetchCalls, qrCalls, qrArgs, res, responses, log,
          errlog, prev, rprofile, rout>>

NoReq == [endpoint |-> "none", identifier |-> <<>>, protocol |-> <<>>, host |-> <<>>]
NoQr == [text |-> <<>>, options |-> [type |-> "none", width |-> 0, margin |-> 0,
                                       dark |-> "", light |-> ""]]
NoImage == [encodes |-> <<>>, options |-> NoQr.options]
NoRes == [status |-> 0, kind |-> "none", ctype |-> "", body |-> <<>>, filename |-> <<>>,
          image |-> NoImage]
NoOut == [stage |-> "input", vcard |-> <<>>, filename |-> <<>>, page |-> <<>>]

ProfileNotFound == <<"P", "r", "o", "f", "i", "l", "e", " ", "n", "o", "t", " ", "f", "o", "u", "n", "d">>

RequestInit ==
    /\ pc = "idle"
    /\ req = NoReq
    /\ profile = Scalar("pending")
    /\ fetchCalls = 0
    /\ qrCalls = 0
    /\ qrArgs = NoQr
    /\ res = NoRes
    /\ responses = 0
    /\ log = <<>>
    /\ errlog = <<>>

NoPrev == [req |-> NoReq, status |-> 0, kind |-> "none", encodes |-> <<>>]

Init ==
    /\ prof \in ProfStates
    /\ RequestInit
    /\ prev = NoPrev
    /\ rprofile = EmptyProfile
    /\ rout = NoOut

renderVars == <<rprofile, rout>>

\* console.error in the catch of a handler
Caught(message) == <<[by |-> "handler", message |-> message]>>

\* res.status(...).send(...) / res.json(...): one response, and the handler returns
Respond(r, steps, caught) ==
    /\ res' = r
    /\ errlog' = errlog \o caught
    /\ responses' = responses + 1
    /\ log' = log \o steps \o <<"respond">>
    /\ pc' = "done"

Html(status, kind, segments) ==
    [status |-> status, kind |-> kind, ctype |-> "text/html", body |-> segments,
     filename |-> <<>>, image |-> NoImage]
Json(status, kind, body) ==
    [status |-> status, kind |-> kind, ctype |-> "application/json", body |-> body,
     filename |-> <<>>, image |-> NoImage]

\* a request arrives at a handler that starts with await fetchProfile(identifier):
\* fetch(`${PROF_BASE_URL}/profile/${identifier}`) is issued
ReceiveAndFetch(endpoint) ==
    /\ pc = "idle"
    /\ \E id \in Identifiers, pr \in Protocols, h \in Hosts :
           req' = [endpoint |-> endpoint, identifier |-> id, protocol |-> pr, host |-> h]
    /\ fetchCalls' = fetchCalls + 1
    /\ log' = log \o <<"receive", "fetch">>
    /\ pc' = "fetching"
    /\ UNCHANGED <<prof, profile, qrCalls, qrArgs, res, responses, errlog, renderVars, prev>>

\* a slip in fetchProfile: no try/catch, so what the fetch throws reaches the
\* catch of the handler
FetchSettlesUncaught ==
    /\ pc = "fetching"
    /\ IF FetchThrows(prof)
       THEN /\ Respond(IF req.endpoint = "card"
                       THEN Html(500, "error_page", generateErrorPage(FetchThrowMessage(prof)))
                       ELSE Json(500, "json_error", [error |-> FetchThrowMessage(prof)]),
                       <<>>, Caught(FetchThrowMessage(prof)))
            /\ UNCHANGED profile
       ELSE /\ profile' = fetchProfile(req.identifier, prof)
            /\ log' = Append(log, "resolve")
            /\ pc' = "resolved"
            /\ UNCHANGED <<res, responses, errlog>>
    /\ UNCHANGED <<prof, req, fetchCalls, qrCalls, qrArgs, renderVars, prev>>

\* a slip the comment 'Try fetching by UUID first' invites: a second attempt
\* after a failed one
FetchSettlesWithRetry ==
    /\ pc = "fetching"
    /\ IF ~ResponseOk(prof) /\ fetchCalls < 2
       THEN /\ fetchCalls' = fetchCalls + 1
            /\ log' = Append(log, "fetch")
            /\ UNCHANGED <<pc, profile, errlog>>
       ELSE /\ profile' = fetchProfile(req.identifier, prof)
            /\ errlog' = errlog \o FetchCaught(prof)
            /\ log' = Append(log, "resolve")
            /\ pc' = "resolved"
            /\ UNCHANGED fetchCalls
    /\ UNCHANGED <<prof, req, qrCalls, qrArgs, res, responses, renderVars, prev>>

\* the outbound call settles and fetchProfile returns
FetchSettles ==
    /\ pc = "fetching"
    /\ profile' = fetchProfile(req.identifier, prof)
    /\ errlog' = errlog \o FetchCaught(prof)
    /\ log' = Append(log, "resolve")
    /\ pc' = "resolved"
    /\ UNCHANGED <<prof, req, fetchCalls, qrCalls, qrArgs, res, responses, renderVars, prev>>

(***************************************************************************)
(* GET /card/:identifier                                                   *)
(***************************************************************************)
CardReceive == ReceiveAndFetch("card")

\* a slip in the handler: the page is rendered without the !profile test
CardAfterFetchUnchecked ==
    /\ pc = "resolved" /\ req.endpoint = "card"
    /\ qrArgs' = [text |-> PageCardUrl(req.identifier), options |-> PageQrOptions]
    /\ qrCalls' = qrCalls + 1
    /\ log' = Append(log, "rasterize")
    /\ pc' = "rasterizing"
    /\ UNCHANGED <<res, responses, errlog>>
    /\ UNCHANGED <<prof, req, profile, fetchCalls, renderVars, prev>>

\* after await fetchProfile: 404, or generateBusinessCardPage up to its await
CardAfterFetch ==
    /\ pc = "resolved" /\ req.endpoint = "card"
    /\ IF Falsy(profile)
       THEN /\ Respond(Html(404, "error_page", generateErrorPage(ProfileNotFound)), <<>>, <<>>)
            /\ UNCHANGED <<qrArgs, qrCalls>>
       ELSE /\ qrArgs' = [text |-> PageCardUrl(req.identifier), options |-> PageQrOptions]
            /\ qrCalls' = qrCalls + 1
            /\ log' = Append(log, "rasterize")
            /\ pc' = "rasterizing"
            /\ UNCHANGED <<res, responses, errlog>>
    /\ UNCHANGED <<prof, req, profile, fetchCalls, renderVars, prev>>

\* after await QRCode.toDataURL: the template, res.send(html); or the catch
CardAfterQr ==
    /\ pc = "rasterizing" /\ req.endpoint = "card"
    /\ \E q \in QrOutcomes :
           IF q.throws
           THEN Respond(Html(500, "error_page", generateErrorPage(q.message)), <<>>,
                        Caught(q.message))
           ELSE IF PageThrows(profile.p)
           THEN Respond(Html(500, "error_page",
                             generateErrorPage(PageThrowMessage(profile.p))), <<>>,
                        Caught(PageThrowMessage(profile.p)))
           ELSE Respond([Html(200, "card", PageSegments(profile.p, req.identifier))
                             EXCEPT !.image = QrImage(qrArgs)], <<"render">>, <<>>)
    /\ UNCHANGED <<prof, req, profile, fetchCalls, qrCalls, qrArgs, renderVars, prev>>

(***************************************************************************)
(* GET /vcard/:identifier                                                  *)
(***************************************************************************)
VcardReceive == ReceiveAndFetch("vcard")

VCardThrowMessage ==
    <<"p", "r", "o", "f", "i", "l", "e", ".", "n", "a", "m", "e", ".", "s", "p", "l", "i", "t",
      " ", "i", "s", " ", "n", "o", "t", " ", "a", " ", "f", "u", "n", "c", "t", "i", "o", "n">>

\* after await fetchProfile: 404, or the vCard with its download headers; or the catch
VcardAfterFetch ==
    /\ pc = "resolved" /\ req.endpoint = "vcard"
    /\ IF Falsy(profile)
       THEN Respond(Json(404, "json_error", [error |-> ProfileNotFound]), <<>>, <<>>)
       ELSE IF VCardThrows(profile.p)
       THEN Respond(Json(500, "json_error", [error |-> VCardThrowMessage]), <<>>,
                    Caught(VCardThrowMessage))
       ELSE Respond([status |-> 200, kind |-> "vcard", ctype |-> "text/vcard",
                     body |-> generateVCard(profile.p), filename |-> Filename(profile.p),
                     image |-> NoImage], <<"render">>, <<>>)
    /\ UNCHANGED <<prof, req, profile, fetchCalls, qrCalls, qrArgs, renderVars, prev>>

\* a slip in /qr: the page's fixed URL, whatever the request's scheme and host
QrCardUrlFixed(protocol, host, identifier) == PageCardUrl(identifier)

(***************************************************************************)
(* GET /qr/:identifier                                                     *)
(***************************************************************************)
\* const cardUrl = `${req.protocol}://${req.get('host')}/card/${identifier}`
QrCardUrl(protocol, host, identifier) ==
    protocol \o <<":", "/", "/">> \o host \o <<"/", "c", "a", "r", "d", "/">> \o identifier

\* the options of QRCode.toBuffer in the /qr handler
QrOptions == [type |-> "png", width |-> 300, margin |-> 2,
              dark |-> "#10b981", light |-> "#0a001a"]

\* the request arrives: the card URL, and QRCode.toBuffer is called
QrReceive ==
    /\ pc = "idle"
    /\ \E id \in Identifiers, pr \in Protocols, h \in Hosts :
           /\ req' = [endpoint |-> "qr", identifier |-> id, protocol |-> pr, host |-> h]
           /\ qrArgs' = [text |-> QrCardUrl(pr, h, id), options |-> QrOptions]
    /\ qrCalls' = qrCalls + 1
    /\ log' = log \o <<"receive", "rasterize">>
    /\ pc' = "rasterizing"
    /\ UNCHANGED <<prof, profile, fetchCalls, res, responses, errlog, renderVars, prev>>

\* after await QRCode.toBuffer: the image, or the catch
QrAfterQr ==
    /\ pc = "rasterizing" /\ req.endpoint = "qr"
    /\ \E q \in QrOutcomes :
           IF q.throws
           THEN Respond(Json(500, "json_error", [error |-> q.message]), <<>>,
                        Caught(q.message))
           ELSE Respond([status |-> 200, kind |-> "png", ctype |-> "image/png",
                         body |-> <<>>, filename |-> <<>>, image |-> QrImage(qrArgs)],
                        <<"render">>, <<>>)
    /\ UNCHANGED <<prof, req, profile, fetchCalls, qrCalls, qrArgs, renderVars, prev>>

(***************************************************************************)
(* GET /api/profile/:identifier                                            *)
(***************************************************************************)
ApiReceive == ReceiveAndFetch("api")

\* after await fetchProfile: 404, or { success: true, profile }
ApiAfterFetch ==
    /\ pc = "resolved" /\ req.endpoint = "api"
    /\ IF Falsy(profile)
       THEN Respond(Json(404, "json_error", [error |-> ProfileNotFound]), <<>>, <<>>)
       ELSE Respond(Json(200, "json_profile", [success |-> TRUE, profile |-> profile]),
                    <<"render">>, <<>>)
    /\ UNCHANGED <<prof, req, profile, fetchCalls, qrCalls, qrArgs, renderVars, prev>>

Next ==
    \/ CardReceive
    \/ VcardReceive
    \/ QrReceive
    \/ ApiReceive
    \/ FetchSettles
    \/ CardAfterFetch
    \/ CardAfterQr
    \/ VcardAfterFetch
    \/ QrAfterQr
    \/ ApiAfterFetch

Spec == Init /\ [][Next]_vars

(***************************************************************************)
(* The renderers on their own: a resolved profile is drawn from a larger   *)
(* set and handed to the vCard renderer (with the filename policy of the   *)
(* /vcard handler) or to the page template.                                *)
(***************************************************************************)
NameChars == {"a", "Z", " ", "<", "&", "."}

\* all texts over NameChars of at most n characters
TextsUpTo(n) == UNION {[1..k -> NameChars] : k \in 0..n}

AdaLovelace == <<"A", "d", "a", " ", "L", "o", "v", "e", "l", "a", "c", "e">>
JaneOBrien == <<"J", "a", "n", "e", " ", "O", "'", "B", "r", "i", "e", "n", "!">>

Names ==
    TextsUpTo(MaxNameLen)
    \cup {AdaLovelace, Cher, JaneOBrien, <<"a", "_", "-", "9">>,
          <<"<", "s", "c", "r", "i", "p", "t", ">">>, <<"\"", "'", ">">>}

\* profiles whose only set field is the name
NameProfiles == {[EmptyProfile EXCEPT !.name = Str(n)] : n \in Names}

\* the value a field takes when it is set
SetValue(field) ==
    CASE field = "name"     -> Str(<<"A", " ", "B">>)
      [] field = "title"    -> Str(<<"T", "&", "t">>)
      [] field = "company"  -> Str(<<"C", "o">>)
      [] field = "email"    -> Str(<<"e", "@", "x">>)
      [] field = "phone"    -> Str(<<"+", "1">>)
      [] field = "website"  -> Str(<<"h", "t", "t", "p", ":", "/", "/", "w", ".", "x">>)
      [] field = "location" -> Str(<<"L", "'", "s">>)
      [] field = "bio"      -> Str(<<"<", "s", "c", "r", "i", "p", "t", ">">>)
      [] field = "github"   -> Str(<<"g", "h">>)
      [] field = "twitter"  -> Str(<<"t", "w">>)
      [] field = "linkedin" -> Str(<<"l", "i">>)

\* the profile in which exactly the fields of S are set, the others being unset
\* (undefined, or the empty string), with or without a social mapping
ProfileOf(S, unset, social) ==
    LET val(field) == IF field \in S THEN SetValue(field) ELSE unset
    IN  [name |-> val("name"), title |-> val("title"), company |-> val("company"),
         email |-> val("email"), phone |-> val("phone"), website |-> val("website"),
         location |-> val("location"), bio |-> val("bio"),
         social |-> [t |-> social, github |-> val("github"),
                     twitter |-> val("twitter"), linkedin |-> val("linkedin")]]

SubsetProfiles ==
    {ProfileOf(S, unset, social) :
        S \in SUBSET (FieldNames \cup SocialNames),
        unset \in {Undef, Str(<<>>)},
        social \in {"undef", "obj"}}

RenderProfiles == NameProfiles \cup SubsetProfiles

InitRender ==
    /\ prof = NetworkError
    /\ RequestInit
    /\ prev = NoPrev
    /\ rprofile \in RenderProfiles
    /\ rout = NoOut

requestVars == <<prof, pc, req, profile, fetchCalls, qrCalls, qrArgs, res, responses, log,
                 errlog, prev>>

\* generateVCard(profile) and the filename of the /vcard handler
RenderVCard ==
    /\ rout.stage = "input"
    /\ ~VCardThrows(rprofile)
    /\ rout' = [stage |-> "vcard", vcard |-> generateVCard(rprofile),
                filename |-> Filename(rprofile), page |-> <<>>]
    /\ UNCHANGED <<rprofile, requestVars>>

\* the template of generateBusinessCardPage
RenderPage ==
    /\ rout.stage = "input"
    /\ ~PageThrows(rprofile)
    /\ \E id \in Identifiers :
           rout' = [stage |-> "page", vcard |-> <<>>, filename |-> <<>>,
                    page |-> PageSegments(rprofile, id)]
    /\ UNCHANGED <<rprofile, requestVars>>

NextRender ==
    \/ RenderVCard
    \/ RenderPage

SpecRender == InitRender /\ [][NextRender]_vars

(***************************************************************************)
(* Properties.                                                             *)
(***************************************************************************)
Resolved == profile.t # "pending"
FetchEndpoints == {"card", "vcard", "api"}
UpstreamFailed == prof.kind = "network_error" \/ ~ResponseOk(prof)

\* the upstream call yields no profile: it fails, or succeeds with a body that
\* does not parse or is a null, empty or falsy JSON value
UpstreamYieldsNoProfile ==
    \/ UpstreamFailed
    \/ prof.body.t \in {"unparseable", "null", "false", "zero", "emptystr"}

\* C1: for the identifier "demo", on every path where the upstream call yields
\* no profile, fetchProfile returns the built-in demo profile (name Ada
\* Lovelace), never null or another falsy value.
C1_DemoFallbackOnEveryFailure ==
    (Resolved /\ req.identifier = demo /\ UpstreamYieldsNoProfile)
        => /\ ~Falsy(profile)
           /\ profile = Direct(getDemoProfile)
           /\ profile.p.name = Str(AdaLovelace)

\* the message of an error page
PageMessage(segments) == segments[2].text

\* C2: for an identifier other than "demo" and an upstream failure (network
\* error or non-success status), fetchProfile returns null and the request is
\* answered 404: the HTML error page on /card, { error: 'Profile not found' }
\* on /vcard and /api/profile; no vCard, card page or success JSON is produced
\* and the rasterizer is not called.
C2_NonDemoFailureIsNotFound ==
    (req.endpoint \in FetchEndpoints /\ req.identifier # demo /\ UpstreamFailed)
        => /\ Resolved => profile = Null
           /\ res.kind \notin {"vcard", "card", "json_profile", "png"}
           /\ qrCalls = 0
           /\ pc = "done" =>
                /\ res.status = 404
                /\ req.endpoint = "card" =>
                     /\ res.kind = "error_page" /\ res.ctype = "text/html"
                     /\ PageMessage(res.body) = ProfileNotFound
                /\ req.endpoint \in {"vcard", "api"} =>
                     /\ res.kind = "json_error" /\ res.ctype = "application/json"
                     /\ res.body = [error |-> ProfileNotFound]

C2_Witness ==
    /\ pc = "done" /\ req.endpoint = "card" /\ req.identifier = <<"u", "1">>
    /\ prof = Response(500, Scalar("unparseable"))
    /\ res.status = 404 /\ res.kind = "error_page"

RECURSIVE LinesOf(_)
\* a text cut at every CRLF: what precedes the first, what lies between two,
\* and what follows the last
LinesOf(text) ==
    IF \E i \in 1..(Len(text) - 1) : text[i] = CR /\ text[i + 1] = LF
    THEN LET k == CHOOSE i \in 1..(Len(text) - 1) :
                     /\ text[i] = CR /\ text[i + 1] = LF
                     /\ \A j \in 1..(i - 1) : ~(text[j] = CR /\ text[j + 1] = LF)
         IN  <<SubSeq(text, 1, k - 1)>> \o LinesOf(SubSeq(text, k + 2, Len(text)))
    ELSE <<text>>

\* the only set field is a non-empty name
NameOnly(p) == Truthy(p.name) /\ p = [EmptyProfile EXCEPT !.name = p.name]

\* C3: for a profile whose only set field is a non-empty name, the vCard is
\* exactly the five lines BEGIN:VCARD, VERSION:3.0, FN:<name>, N:...,
\* END:VCARD in that order, each of them, END:VCARD included, terminated by
\* CRLF (so nothing follows the last CRLF).
C3_FiveLinesEachTerminated ==
    (rout.stage = "vcard" /\ NameOnly(rprofile))
        => LET L == LinesOf(rout.vcard)
           IN  /\ Len(L) = 6
               /\ L[1] = L_BEGIN
               /\ L[2] = L_VERSION
               /\ L[3] = L_FN \o rprofile.name.v
               /\ StartsWith(L[4], L_N)
               /\ L[5] = L_END
               /\ L[6] = <<>>

\* the place of a vCard line in the fixed order, 0 for a line of no known kind
Rank(line) ==
    CASE line = L_BEGIN -> 1
      [] line = L_VERSION -> 2
      [] StartsWith(line, L_FN) -> 3
      [] StartsWith(line, L_N) -> 4
      [] StartsWith(line, L_TITLE) -> 5
      [] StartsWith(line, L_ORG) -> 6
      [] StartsWith(line, L_EMAIL) -> 7
      [] StartsWith(line, L_TEL) -> 8
      [] StartsWith(line, L_URL) -> 9
      [] StartsWith(line, L_ADR) -> 10
      [] StartsWith(line, L_NOTE) -> 11
      [] StartsWith(line, L_GITHUB) -> 12
      [] StartsWith(line, L_TWITTER) -> 13
      [] StartsWith(line, L_LINKEDIN) -> 14
      [] line = L_END -> 15
      [] OTHER -> 0

HasRank(L, k) == \E i \in 1..Len(L) : Rank(L[i]) = k

\* C4: the lines of the vCard are a subsequence of the fixed order BEGIN,
\* VERSION, FN, N, TITLE, ORG, EMAIL, TEL, URL, ADR, NOTE, GitHub, Twitter,
\* LinkedIn, END; BEGIN and VERSION are the first two and END the last; a field
\* line is there exactly when its field is present and non-empty (and, for a
\* social line, the social mapping is present).
C4_FixedOrderAndPresence ==
    rout.stage = "vcard"
        => LET L == LinesOf(rout.vcard)
               p == rprofile
               soc(f) == p.social.t = "obj" /\ Truthy(f)
           IN  /\ Len(L) >= 3
               /\ L[1] = L_BEGIN /\ L[2] = L_VERSION /\ L[Len(L)] = L_END
               /\ \A i \in 1..Len(L) : Rank(L[i]) # 0
               /\ \A i \in 1..(Len(L) - 1) : Rank(L[i]) < Rank(L[i + 1])
               /\ HasRank(L, 3) <=> Truthy(p.name)
               /\ HasRank(L, 4) <=> Truthy(p.name)
               /\ HasRank(L, 5) <=> Truthy(p.title)
               /\ HasRank(L, 6) <=> Truthy(p.company)
               /\ HasRank(L, 7) <=> Truthy(p.email)
               /\ HasRank(L, 8) <=> Truthy(p.phone)
               /\ HasRank(L, 9) <=> Truthy(p.website)
               /\ HasRank(L, 10) <=> Truthy(p.location)
               /\ HasRank(L, 11) <=> Truthy(p.bio)
               /\ HasRank(L, 12) <=> soc(p.social.github)
               /\ HasRank(L, 13) <=> soc(p.social.twitter)
               /\ HasRank(L, 14) <=> soc(p.social.linkedin)

C4_Witness ==
    /\ rout.stage = "vcard"
    /\ rprofile = ProfileOf({"name", "email", "bio", "twitter"}, Str(<<>>), "obj")
    /\ Len(LinesOf(rout.vcard)) = 8

\* the N line the claim describes, from the first space of the name
ExpectedNLine(name) ==
    IF \E i \in 1..Len(name) : name[i] = " "
    THEN LET k == CHOOSE i \in 1..Len(name) :
                     name[i] = " " /\ \A j \in 1..(i - 1) : name[j] # " "
         IN  <<"N", ":">> \o SubSeq(name, k + 1, Len(name)) \o <<";">>
             \o SubSeq(name, 1, k - 1) \o <<";", ";", ";">>
    ELSE <<"N", ":", ";">> \o name \o <<";", ";", ";">>

\* C5: for a non-empty name the N line is N:<what follows the first
\* space>;<what precedes it>;;; when the name has a space (two tokens or more,
\* the tokens after the first joined by one space), and N:;<name>;;; otherwise;
\* Ada Lovelace gives N:Lovelace;Ada;;; and Cher gives N:;Cher;;;; leading,
\* trailing and consecutive spaces make empty tokens.
C5_NLine ==
    (rout.stage = "vcard" /\ Truthy(rprofile.name))
        => LET L == LinesOf(rout.vcard)
               name == rprofile.name.v
           IN  /\ L[4] = ExpectedNLine(name)
               /\ name = AdaLovelace =>
                    L[4] = <<"N", ":", "L", "o", "v", "e", "l", "a", "c", "e", ";",
                             "A", "d", "a", ";", ";", ";">>
               /\ name = Cher => L[4] = <<"N", ":", ";", "C", "h", "e", "r", ";", ";", ";">>

C5_Witness ==
    /\ rout.stage = "vcard"
    /\ rprofile.name = Str(<<"a", " ", " ">>)
    /\ LinesOf(rout.vcard)[4] = <<"N", ":", " ", ";", "a", ";", ";", ";">>

\* the five entities escapeHtml writes
Entities ==
    {<<"&", "a", "m", "p", ";">>, <<"&", "l", "t", ";">>, <<"&", "g", "t", ";">>,
     <<"&", "q", "u", "o", "t", ";">>, <<"&", "#", "0", "3", "9", ";">>}

\* no <, >, " or ' in the text, and every & starts an entity
IsEscaped(text) ==
    \A i \in 1..Len(text) :
        /\ text[i] \notin {"<", ">", "\"", "'"}
        /\ text[i] = "&" => \E e \in Entities : StartsWith(SubSeq(text, i, Len(text)), e)

\* C6: in the page, profile text is HTML-escaped at every place it is
\* inserted, the page title, the meta description and the avatar initials
\* included.
C6_ProfileTextEscapedEverywhere ==
    rout.stage = "page"
        => \A i \in 1..Len(rout.page) :
               rout.page[i].src = "profile" => IsEscaped(rout.page[i].text)

\* C7: the download filename is (name, or contact when the name is absent or
\* empty) followed by .vcf with every character outside [A-Za-z0-9.-] replaced
\* by _: same length, allowed characters unchanged in place, the others _,
\* and .vcf at the end; Jane O'Brien! gives Jane_O_Brien_.vcf.
C7_Filename ==
    rout.stage = "vcard"
        => LET raw == (IF Truthy(rprofile.name) THEN rprofile.name.v
                       ELSE <<"c", "o", "n", "t", "a", "c", "t">>) \o <<".", "v", "c", "f">>
               f == rout.filename
               allowed == LowerCase \cup UpperCase \cup Digits \cup {".", "-"}
           IN  /\ Len(f) = Len(raw)
               /\ \A i \in 1..Len(raw) :
                      /\ f[i] \in allowed \cup {"_"}
                      /\ raw[i] \in allowed => f[i] = raw[i]
                      /\ raw[i] \notin allowed => f[i] = "_"
               /\ SubSeq(f, Len(f) - 3, Len(f)) = <<".", "v", "c", "f">>
               /\ rprofile.name = Str(JaneOBrien) =>
                    f = <<"J", "a", "n", "e", "_", "O", "_", "B", "r", "i", "e", "n", "_",
                          ".", "v", "c", "f">>

C7_Witness ==
    /\ rout.stage = "vcard"
    /\ rprofile.name = Str(JaneOBrien)
    /\ rout.filename = <<"J", "a", "n", "e", "_", "O", "_", "B", "r", "i", "e", "n", "_",
                         ".", "v", "c", "f">>

\* the exception's message as the response carries it: escaped in the error
\* page of /card, as it is in the JSON body of the other endpoints
Surfaces(message) ==
    IF req.endpoint = "card"
    THEN /\ res.kind = "error_page" /\ res.ctype = "text/html"
         /\ PageMessage(res.body) = escapeHtml(message)
    ELSE /\ res.kind = "json_error" /\ res.ctype = "application/json"
         /\ res.body = [error |-> message]

\* C8 as stated: Not Found (the profile is unresolved for a non-demo
\* identifier) gives 404, and every other exception thrown during fetch or
\* render, a malformed upstream response and a QR rasterization failure
\* included, gives 500 with the exception's message in the error page or the
\* JSON body.
C8_EveryExceptionIsInternal ==
    pc = "done"
        => /\ res.status \in {200, 404, 500}
           /\ (req.endpoint \in FetchEndpoints /\ req.identifier # demo /\ Falsy(profile)
                 /\ errlog = <<>>) => res.status = 404
           /\ \A i \in 1..Len(errlog) :
                  (errlog[i].by = "handler" \/ prof.kind # "network_error")
                      => res.status = 500 /\ Surfaces(errlog[i].message)

\* C8, amended: 404 is given exactly when fetchProfile returned a falsy value,
\* and every exception thrown during the fetch (network error, a body that
\* does not parse, a null body) is caught inside fetchProfile and comes to the
\* fallback, never to 500; 500 is given exactly when the handler catches an
\* exception, which is thrown only after the profile is resolved, by the
\* rasterizer or by the renderer on a field that is not text, and its message
\* is in the error page (escaped) or the JSON body; /api/profile never gives
\* 500.
C8_NotFoundOrRenderError ==
    pc = "done"
        => /\ res.status \in {200, 404, 500}
           /\ res.status = 404 <=> (req.endpoint \in FetchEndpoints /\ Falsy(profile))
           /\ res.status = 500 <=> (\E i \in 1..Len(errlog) : errlog[i].by = "handler")
           /\ \A i \in 1..Len(errlog) :
                  /\ errlog[i].by = "handler" =>
                       /\ req.endpoint = "qr" \/ (Resolved /\ ~Falsy(profile))
                       /\ req.endpoint # "api"
                       /\ Surfaces(errlog[i].message)
                  /\ errlog[i].by = "fetchProfile" =>
                       /\ profile = Fallback(req.identifier)
                       /\ req.identifier # demo => res.status = 404

C8_Witness ==
    /\ pc = "done" /\ req.endpoint = "vcard" /\ req.identifier = <<"u", "1">>
    /\ prof = Response(200, Scalar("unparseable"))
    /\ Len(errlog) = 1 /\ errlog[1].by = "fetchProfile"
    /\ res.status = 404

\* C9: one request issues at most one outbound call to the profile service and
\* at most one call into the rasterizer; a failed outbound attempt is not
\* repeated, and the outcome is decided from it: the demo profile for "demo",
\* not found for any other identifier.
C9_SingleAttempt ==
    /\ fetchCalls <= 1
    /\ qrCalls <= 1
    /\ Cardinality({i \in 1..Len(log) : log[i] = "fetch"}) <= 1
    /\ Cardinality({i \in 1..Len(log) : log[i] = "rasterize"}) <= 1
    /\ (Resolved /\ UpstreamFailed) =>
          /\ fetchCalls = 1
          /\ profile = (IF req.identifier = demo THEN Direct(getDemoProfile) ELSE Null)
          /\ pc = "done" =>
               IF req.identifier = demo THEN res.status \in {200, 500}
               ELSE res.status = 404

C9_Witness ==
    /\ pc = "done" /\ req.endpoint = "card" /\ req.identifier = demo
    /\ prof = NetworkError
    /\ fetchCalls = 1 /\ qrCalls = 1
    /\ res.status = 200 /\ res.kind = "card"

\* exactly one response, sent last
OneResponseAtTheEnd ==
    /\ responses <= 1
    /\ responses = Cardinality({i \in 1..Len(log) : log[i] = "respond"})
    /\ pc = "done" <=> responses = 1
    /\ pc = "done" => log[Len(log)] = "respond"
    /\ log # <<>> => log[1] = "receive"

\* rendering, QR rasterization included, only after the profile is resolved,
\* and only for a profile that was found
RenderAfterResolve ==
    \A i \in 1..Len(log) :
        log[i] \in {"rasterize", "render"}
            => /\ \E j \in 1..(i - 1) : log[j] = "resolve"
               /\ Resolved /\ ~Falsy(profile)

\* C10 as stated: on each of /card, /vcard, /qr and /api/profile the steps are
\* receive, resolve, render, respond: the profile is resolved before any
\* rendering, rendering happens only for a resolved profile, and exactly one
\* response is sent after it.
C10_ResolveThenRenderEverywhere ==
    /\ OneResponseAtTheEnd
    /\ RenderAfterResolve

\* C10, amended: that order holds on /card, /vcard and /api/profile; /qr
\* resolves no profile: it rasterizes the card URL of the request without an
\* outbound call; on every endpoint exactly one response is sent, last.
C10_ResolveThenRenderWhereFetched ==
    /\ OneResponseAtTheEnd
    /\ req.endpoint \in FetchEndpoints => RenderAfterResolve
    /\ req.endpoint = "qr" =>
          /\ fetchCalls = 0 /\ ~Resolved
          /\ \A i \in 1..Len(log) : log[i] \notin {"fetch", "resolve"}
          /\ Len(log) >= 2 /\ log[2] = "rasterize"

C10_Witness ==
    /\ pc = "done" /\ req.endpoint = "card"
    /\ log = <<"receive", "fetch", "resolve", "rasterize", "render", "respond">>

(***************************************************************************)
(* Two requests in a row.  The handlers keep nothing between requests:     *)
(* once a request is answered the next one starts from the same state, and *)
(* prev records what the earlier request was and what it was answered, so  *)
(* that two requests can be compared.  The profile service does not change *)
(* in between.                                                             *)
(***************************************************************************)
NextRequest ==
    /\ pc = "done"
    /\ prev = NoPrev
    /\ prev' = [req |-> req, status |-> res.status, kind |-> res.kind,
                encodes |-> res.image.encodes]
    /\ pc' = "idle"
    /\ req' = NoReq
    /\ profile' = Scalar("pending")
    /\ fetchCalls' = 0
    /\ qrCalls' = 0
    /\ qrArgs' = NoQr
    /\ res' = NoRes
    /\ responses' = 0
    /\ log' = <<>>
    /\ errlog' = <<>>
    /\ UNCHANGED <<prof, renderVars>>

NextPair ==
    \/ Next
    \/ NextRequest

SpecPair == Init /\ [][NextPair]_vars

\* https://bizbuz.planetnine.app/card/
CanonicalCardBase ==
    <<"h", "t", "t", "p", "s", ":", "/", "/", "b", "i", "z", "b", "u", "z", ".",
      "p", "l", "a", "n", "e", "t", "n", "i", "n", "e", ".", "a", "p", "p",
      "/", "c", "a", "r", "d", "/">>

\* two answered requests with an image, on the same endpoint and for the same
\* identifier, that differ in scheme or host
PairDiffersInOrigin ==
    /\ pc = "done"
    /\ prev.kind \in {"card", "png"} /\ res.kind = prev.kind
    /\ req.endpoint = prev.req.endpoint
    /\ req.identifier = prev.req.identifier
    /\ <<req.protocol, req.host>> # <<prev.req.protocol, prev.req.host>>

\* C11: of two requests for the same identifier that differ only in scheme or
\* host, the QR embedded in the /card page encodes the same URL,
\* https://bizbuz.planetnine.app/card/<identifier>, whatever the host, while
\* the QR of /qr/:identifier encodes <scheme>://<host>/card/<identifier> of
\* the request itself, and so a different URL in the two.
C11_CardQrFixedQrEndpointFollowsRequest ==
    PairDiffersInOrigin
        => /\ req.endpoint = "card" =>
                /\ res.image.encodes = CanonicalCardBase \o req.identifier
                /\ prev.encodes = res.image.encodes
           /\ req.endpoint = "qr" =>
                /\ res.image.encodes =
                       req.protocol \o <<":", "/", "/">> \o req.host
                       \o <<"/", "c", "a", "r", "d", "/">> \o req.identifier
                /\ prev.encodes =
                       prev.req.protocol \o <<":", "/", "/">> \o prev.req.host
                       \o <<"/", "c", "a", "r", "d", "/">> \o prev.req.identifier
                /\ prev.encodes # res.image.encodes

C11_Witness ==
    /\ PairDiffersInOrigin
    /\ req.endpoint = "card" /\ req.identifier = <<"u", "1">>
    /\ req.protocol = <<"h", "t", "t", "p">> /\ prev.req.protocol = <<"h", "t", "t", "p", "s">>
    /\ req.host # prev.req.host
    /\ prev.encodes = res.image.encodes

\* the upstream call succeeds and returns an object P as its payload
UpstreamReturnsObject == ResponseOk(prof) /\ prof.body.t = "obj"

\* P.profile when P has a profile member, P itself otherwise
ProfileMemberOrSelf(P) ==
    IF P.wrap = "obj" THEN Direct(P.inner)
    ELSE IF P.wrap = "null" THEN Null
    ELSE P

\* C12: whenever the upstream call succeeds and returns a payload P,
\* fetchProfile returns P.profile when P is a wrapper containing a profile
\* field and P itself otherwise, for every identifier, "demo" included, so
\* the built-in demo profile never stands in for a returned payload.
C12_UnwrapsEveryProfileField ==
    (Resolved /\ UpstreamReturnsObject)
        => profile = ProfileMemberOrSelf(prof.body)

====
